---- MODULE Spec2Model ----
(***************************************************************************)
(* BuildGradleMigrator (src/build_gradle_migrator.py): the section scanner,*)
(* the merge of a source build.gradle into a target build.gradle, and the  *)
(* structural validator of the merged file.                                *)
(*                                                                         *)
(* A line of a file is a record                                            *)
(*    [ind |-> leading blanks, txt |-> the stripped text, nl |-> ends in   *)
(*     a newline, tail |-> text glued to the line by a write]              *)
(* txt ranges over a fixed vocabulary of gradle lines; what Python's       *)
(* str.strip, str.startswith, str.endswith, str.count and re.match answer  *)
(* for each text of the vocabulary is tabulated below.                     *)
(***************************************************************************)
EXTENDS Integers, Sequences, FiniteSets, TLC

VARIABLES
    existing,           \* the paths os.path.exists answers True for
    summary,            \* what run_migration returned
    source_file,        \* the lines of the file at build_source_gradle_path
    target_file,        \* the lines of the file at build_target_gradle_path
    source_sections,    \* self.source_sections, in dict order
    target_sections,    \* self.target_sections, in dict order
    migration_changes,  \* self.migration_changes
    validation_errors,  \* self.validation_errors
    validation_passed,  \* what validate_gradle_structure returned
    migrated,           \* the names migrate_sections has iterated over
    pc,                 \* the position of run_migration
    mode,               \* "first", or how the second run was started
    original_target,    \* the target file before the first run
    first_target,       \* the target file the first run left
    first_changes       \* the change log the first run left

vars == <<existing, summary, source_file, target_file, source_sections, target_sections,
          migration_changes, validation_errors, validation_passed, migrated,
          pc, mode, original_target, first_target, first_changes>>

(***************************************************************************)
(* Bounds of the model.                                                    *)
(***************************************************************************)
MaxScanLen == 4
MaxItems == 2

(***************************************************************************)
(* The vocabulary of line texts.                                           *)
(***************************************************************************)
SectionNames == {"plugins", "dependencies"}

OpenLine(n) == IF n = "plugins" THEN "plugins {" ELSE "dependencies {"

OneLineBlock == "plugins { id 'java' }"
ForeignOpen == "tasks.named('test') {"
CloseLine == "}"
BlankText == ""
CommentText == "// note"
StatementTexts == {"x", "y"}

AddedComment == "// Section Added in migration from source project"
UpdatedComment == "// Section updated in migration from source to target"
LineComment == "// Added as part of migration from source to target"

(* The tables below say what the string tests of the code answer for each
   text of the vocabulary (no text of it starts with an opening brace or with
   a block comment).
   The '{' (1) and '}' (-1) characters of a text, in the order they occur: *)
TextBraces(t) ==
    CASE t = "plugins {" -> <<1>>
      [] t = "dependencies {" -> <<1>>
      [] t = ForeignOpen -> <<1>>
      [] t = OneLineBlock -> <<1, -1>>
      [] t = CloseLine -> <<-1>>
      [] OTHER -> <<>>

\* the name that re.match finds in front of the first brace of the text (an
\* identifier, optional blanks, then an opening brace), or NoMatch
NoMatch == ""
SectionMatch(t) ==
    CASE t = "plugins {" -> "plugins"
      [] t = "dependencies {" -> "dependencies"
      [] t = OneLineBlock -> "plugins"
      [] OTHER -> NoMatch

StartsWithLineComment(t) == t \in {CommentText, AddedComment, UpdatedComment, LineComment}
StartsWithBlockComment(t) == FALSE
StartsWithOpen(t) == FALSE
StartsWithClose(t) == t = CloseLine
EndsWithOpen(t) == t \in {"plugins {", "dependencies {", ForeignOpen}
EndsWithClose(t) == t \in {CloseLine, OneLineBlock}

(***************************************************************************)
(* Lines.                                                                  *)
(***************************************************************************)
NoTail == ""
Line(ind, t) == [ind |-> ind, txt |-> t, nl |-> TRUE, tail |-> NoTail]

(* line.strip(): the line without the blanks around it and without its
   newline; a line that a write glued a second text to keeps both texts *)
Strip(l) == [txt |-> l.txt, tail |-> l.tail]
StripIsEmpty(l) == l.txt = BlankText /\ l.tail = NoTail
StripIsClose(l) == l.txt = CloseLine /\ l.tail = NoTail

LineStartsWithComment(l) ==
    StartsWithLineComment(l.txt) \/ StartsWithBlockComment(l.txt)
LineStartsWithBrace(l) == StartsWithOpen(l.txt) \/ StartsWithClose(l.txt)
LineEndsWithBrace(l) ==
    IF l.tail = NoTail THEN EndsWithOpen(l.txt) \/ EndsWithClose(l.txt)
    ELSE EndsWithOpen(l.tail) \/ EndsWithClose(l.tail)

(* the brace characters of a line in order; line.count('{'), line.count('}') *)
LineBraces(l) == TextBraces(l.txt) \o TextBraces(l.tail)

RECURSIVE SumSeq(_)
SumSeq(s) == IF s = <<>> THEN 0 ELSE Head(s) + SumSeq(Tail(s))

CountOpen(l) == Len(SelectSeq(LineBraces(l), LAMBDA c : c = 1))
CountClose(l) == Len(SelectSeq(LineBraces(l), LAMBDA c : c = -1))

(***************************************************************************)
(* _determine_section_type                                                 *)
(***************************************************************************)
DetermineSectionType(section_name) ==
    CASE section_name \in {"plugins", "plugin"} -> "PLUGINS"
      [] section_name \in {"dependencies", "dependency"} -> "DEPENDENCIES"
      [] section_name \in {"repositories", "repository"} -> "REPOSITORIES"
      [] section_name \in {"configurations", "configuration"} -> "CONFIGURATIONS"
      [] section_name \in {"tasks", "task"} -> "TASKS"
      [] section_name = "android" -> "ANDROID"
      [] section_name = "java" -> "JAVA"
      [] section_name = "kotlin" -> "KOTLIN"
      [] OTHER -> "CUSTOM"

(***************************************************************************)
(* identify_sections.  Indices are 0-based as in the code: lines[i] of the *)
(* code is lines[i + 1] here.                                              *)
(***************************************************************************)
GradleSection(name, content, start_line, end_line) ==
    [name |-> name, content |-> content, start_line |-> start_line,
     end_line |-> end_line, section_type |-> DetermineSectionType(name)]

(* the inner while loop: from line i with brace_count, the index reached and
   the counter left, <<i, brace_count>> *)
RECURSIVE FindSectionEnd(_, _, _)
FindSectionEnd(lines, i, brace_count) ==
    IF i < Len(lines) /\ brace_count > 0
    THEN FindSectionEnd(lines, i + 1,
                        brace_count + CountOpen(lines[i + 1]) - CountClose(lines[i + 1]))
    ELSE <<i, brace_count>>

InitialBraceCount == 1

(* the outer while loop, collecting every captured section in scan order *)
RECURSIVE CapturedSections(_, _)
CapturedSections(lines, i) ==
    IF i >= Len(lines) THEN <<>>
    ELSE LET line == lines[i + 1] IN
         IF StripIsEmpty(line) \/ LineStartsWithComment(line)
         THEN CapturedSections(lines, i + 1)
         ELSE IF SectionMatch(line.txt) # NoMatch
              THEN LET end == FindSectionEnd(lines, i + 1, InitialBraceCount)[1]
                       sec == GradleSection(SectionMatch(line.txt),
                                            SubSeq(lines, i + 1, end), i, end - 1)
                   IN <<sec>> \o CapturedSections(lines, end)
              ELSE CapturedSections(lines, i + 1)

(* sections[section_name] = ... on a dict: a new key goes last, an existing
   key keeps its place and takes the new value *)
DictPut(sections, sec) ==
    IF \E k \in 1..Len(sections) : sections[k].name = sec.name
    THEN [k \in 1..Len(sections) |->
             IF sections[k].name = sec.name THEN sec ELSE sections[k]]
    ELSE Append(sections, sec)

RECURSIVE DictOf(_, _)
DictOf(captured, sections) ==
    IF captured = <<>> THEN sections
    ELSE DictOf(Tail(captured), DictPut(sections, Head(captured)))

IdentifySections(lines) == DictOf(CapturedSections(lines, 0), <<>>)

Keys(sections) == {sections[k].name : k \in 1..Len(sections)}
Get(sections, name) ==
    sections[CHOOSE k \in 1..Len(sections) : sections[k].name = name]

(***************************************************************************)
(* Reading and writing a file.  file.writelines concatenates the strings   *)
(* of the list and readlines splits the text at its newlines, so a string  *)
(* that does not end in a newline and the string after it come back as one *)
(* line.                                                                   *)
(***************************************************************************)
GlueLines(a, b) ==
    IF b.txt = BlankText /\ b.tail = NoTail
    THEN [a EXCEPT !.nl = b.nl]
    ELSE [a EXCEPT !.tail = b.txt, !.nl = b.nl]

RECURSIVE WriteLines(_)
WriteLines(list) ==
    IF Len(list) <= 1 THEN list
    ELSE IF list[1].nl
         THEN <<list[1]>> \o WriteLines(Tail(list))
         ELSE WriteLines(<<GlueLines(list[1], list[2])>> \o Tail(Tail(list)))

ReadGradleFile(file) == file

(* the two paths of a migrator, and os.path.exists in read_gradle_file *)
SourcePath == "build_source_gradle_path"
TargetPath == "build_target_gradle_path"
Paths == {SourcePath, TargetPath}

(* read_gradle_file without its test of os.path.exists *)
PathExistsUntested(file_path) == TRUE

PathExists(file_path) == file_path \in existing

(* the messages of the exceptions, outermost text first *)
FileNotFound(file_path) == <<"File not found: ", file_path>>
ErrorReading(e) == <<"Error reading Gradle file: ">> \o e

(* list[at:at] = new on a 0-based list *)
InsertAt(list, at, new) ==
    SubSeq(list, 1, at) \o new \o SubSeq(list, at + 1, Len(list))

(***************************************************************************)
(* extract_content_lines (the same nested function in both merge steps)    *)
(***************************************************************************)
Meaningful(l) ==
    /\ ~StripIsEmpty(l)
    /\ ~LineStartsWithComment(l)
    /\ ~LineStartsWithBrace(l)
    /\ ~LineEndsWithBrace(l)

RECURSIVE ExtractContentLines(_)
ExtractContentLines(section_content) ==
    IF section_content = <<>> THEN <<>>
    ELSE IF Meaningful(Head(section_content))
         THEN <<Strip(Head(section_content))>> \o ExtractContentLines(Tail(section_content))
         ELSE ExtractContentLines(Tail(section_content))

(***************************************************************************)
(* _migrate_new_section                                                    *)
(***************************************************************************)
(* the index of the last line that strips to '}', or len(target_lines) *)
NewSectionPosition(target_lines) ==
    LET closing == {i \in 0..(Len(target_lines) - 1) : StripIsClose(target_lines[i + 1])}
    IN IF closing = {} THEN Len(target_lines)
       ELSE CHOOSE i \in closing : \A j \in closing : j <= i

NewSectionContent(source_section) ==
    <<Line(0, AddedComment)>> \o source_section.content \o <<Line(0, BlankText)>>

(* target_lines[insert_position:] = new_section_content: the slice runs to
   the end of the list, so the lines from the insertion point on are lost *)
NewSectionLinesOverwriting(target_lines, source_section) ==
    SubSeq(target_lines, 1, NewSectionPosition(target_lines))
        \o NewSectionContent(source_section)

NewSectionLines(target_lines, source_section) ==
    InsertAt(target_lines, NewSectionPosition(target_lines),
             NewSectionContent(source_section))

CountDetail(n) == [txt |-> "Added complete section with n lines", tail |-> NoTail, n |-> n]

AddChange(section_name, source_section) ==
    [section_name |-> section_name,
     change_type |-> "ADD",
     description |-> <<"Added new section from source project", section_name>>,
     details |-> <<CountDetail(Len(source_section.content))>>
                 \o ExtractContentLines(source_section.content)]

(***************************************************************************)
(* _migrate_existing_section                                               *)
(***************************************************************************)
(* new_content without the test "line not in target_content_lines" *)
NewContentUnfiltered(source_section, target_section) ==
    ExtractContentLines(source_section.content)

(* the lines of the source section that are not in the target section *)
NewContent(source_section, target_section) ==
    LET target_content_lines == ExtractContentLines(target_section.content)
    IN SelectSeq(ExtractContentLines(source_section.content),
                 LAMBDA line : \A k \in 1..Len(target_content_lines) :
                                   target_content_lines[k] # line)

(* the index after the first line at or after section_start that holds '{' *)
ContentPosition(target_lines, section_start) ==
    LET opening == {i \in section_start..(Len(target_lines) - 1) :
                        CountOpen(target_lines[i + 1]) > 0}
    IN IF opening = {} THEN section_start + 1
       ELSE (CHOOSE i \in opening : \A j \in opening : i <= j) + 1

RECURSIVE NewContentLines(_)
NewContentLines(new_content) ==
    IF new_content = <<>> THEN <<>>
    ELSE LET content == Head(new_content) IN
         (IF ~(content.txt = BlankText /\ content.tail = NoTail)
             /\ ~StartsWithLineComment(content.txt)
          THEN <<Line(4, LineComment),
                 [ind |-> 4, txt |-> content.txt, nl |-> TRUE, tail |-> content.tail]>>
          ELSE <<>>) \o NewContentLines(Tail(new_content))

ExistingSectionLines(target_lines, target_section, new_content) ==
    LET section_start == target_section.start_line
        commented == InsertAt(target_lines, section_start, <<Line(0, UpdatedComment)>>)
    IN InsertAt(commented, ContentPosition(commented, section_start),
                NewContentLines(new_content))

UpdateChange(section_name, new_content) ==
    [section_name |-> section_name,
     change_type |-> "UPDATE",
     description |-> <<"Updated section with new content from source", section_name>>,
     details |-> new_content]

(***************************************************************************)
(* validate_gradle_structure                                               *)
(***************************************************************************)
RECURSIVE FileBraces(_)
FileBraces(lines) ==
    IF lines = <<>> THEN <<>> ELSE LineBraces(Head(lines)) \o FileBraces(Tail(lines))

(* the character loop with "brace_count <= 0" for "brace_count < 0" *)
RECURSIVE BraceLoopStrict(_, _)
BraceLoopStrict(chars, brace_count) ==
    IF chars = <<>> THEN [negative |-> FALSE, count |-> brace_count]
    ELSE IF Head(chars) = 1 THEN BraceLoopStrict(Tail(chars), brace_count + 1)
         ELSE IF brace_count - 1 <= 0
              THEN [negative |-> TRUE, count |-> brace_count - 1]
              ELSE BraceLoopStrict(Tail(chars), brace_count - 1)

(* the character loop without the test inside it: only the count at the end *)
RECURSIVE BraceLoopLate(_, _)
BraceLoopLate(chars, brace_count) ==
    IF chars = <<>> THEN [negative |-> FALSE, count |-> brace_count]
    ELSE BraceLoopLate(Tail(chars), brace_count + Head(chars))

(* the character loop: "negative" at the first '}' that takes the count below
   zero, or the count at the end of the file *)
RECURSIVE BraceLoop(_, _)
BraceLoop(chars, brace_count) ==
    IF chars = <<>> THEN [negative |-> FALSE, count |-> brace_count]
    ELSE IF Head(chars) = 1 THEN BraceLoop(Tail(chars), brace_count + 1)
         ELSE IF brace_count - 1 < 0
              THEN [negative |-> TRUE, count |-> brace_count - 1]
              ELSE BraceLoop(Tail(chars), brace_count - 1)

(* the names that occur more than once among the values of the dict *)
Duplicates(sections) ==
    {name \in Keys(sections) :
        Cardinality({k \in 1..Len(sections) : sections[k].name = name}) > 1}

UnbalancedDetected == [error |-> "Unbalanced braces detected"]
UnclosedBraces(n) == [error |-> "Unbalanced braces: n unclosed braces", n |-> n]
DuplicateSections(names) == [error |-> "Duplicate sections found", names |-> names]

(* the errors one call appends; the call returns True iff it appends none *)
ValidationErrors(target_lines) ==
    LET braces == BraceLoop(FileBraces(target_lines), 0)
        duplicates == Duplicates(IdentifySections(target_lines))
    IN IF braces.negative THEN <<UnbalancedDetected>>
       ELSE IF braces.count # 0 THEN <<UnclosedBraces(braces.count)>>
       ELSE IF duplicates # {} THEN <<DuplicateSections(duplicates)>>
       ELSE <<>>

(***************************************************************************)
(* generate_summary.  The summary is the sequence of its lines; a line is  *)
(* its fixed text and the values formatted into it.                        *)
(***************************************************************************)
SummaryLine(text, values) == [line |-> text, with |-> values]

SummaryHeader ==
    <<SummaryLine("=== BuildGradle Migration Summary ===", <<>>), SummaryLine("", <<>>)>>

NoChangesLine == SummaryLine("No changes were made during migration.", <<>>)

(* enumerate(details, 1): one numbered line for each detail *)
ChangeLines(text, details) ==
    [i \in 1..Len(details) |-> SummaryLine(text, <<i, details[i]>>)]

AddedSectionLines(change) ==
    <<SummaryLine("Section: ", <<change.section_name>>),
      SummaryLine("Description: ", change.description)>>
        \o ChangeLines("  Change-i: ", Tail(change.details))
        \o <<SummaryLine("", <<>>)>>

UpdatedSectionLines(change) ==
    <<SummaryLine("Section: ", <<change.section_name>>),
      SummaryLine("Description: ", change.description)>>
        \o ChangeLines("Change-i: ", change.details)
        \o <<SummaryLine("", <<>>)>>

RECURSIVE AddedSections(_)
AddedSections(added_sections) ==
    IF added_sections = <<>> THEN <<>>
    ELSE AddedSectionLines(Head(added_sections)) \o AddedSections(Tail(added_sections))

RECURSIVE UpdatedSections(_)
UpdatedSections(updated_sections) ==
    IF updated_sections = <<>> THEN <<>>
    ELSE UpdatedSectionLines(Head(updated_sections))
             \o UpdatedSections(Tail(updated_sections))

ValidationResults(errors) ==
    <<SummaryLine("=== Validation Results ===", <<>>)>>
        \o (IF errors # <<>>
            THEN <<SummaryLine("Validation FAILED:", <<>>)>>
                     \o [k \in 1..Len(errors) |-> SummaryLine("  - ", <<errors[k]>>)]
            ELSE <<SummaryLine("Validation PASSED: All checks completed successfully.",
                               <<>>)>>)

SummaryOf(changes, errors) ==
    LET added_sections == SelectSeq(changes, LAMBDA change : change.change_type = "ADD")
        updated_sections == SelectSeq(changes, LAMBDA change : change.change_type = "UPDATE")
    IN IF changes = <<>> THEN SummaryHeader \o <<NoChangesLine>>
       ELSE SummaryHeader
                \o (IF added_sections # <<>>
                    THEN <<SummaryLine("=== Added Sections ===", <<>>)>>
                             \o AddedSections(added_sections)
                    ELSE <<>>)
                \o (IF updated_sections # <<>>
                    THEN <<SummaryLine("=== Updated Sections ===", <<>>)>>
                             \o UpdatedSections(updated_sections)
                    ELSE <<>>)
                \o ValidationResults(errors)

(***************************************************************************)
(* run_migration                                                           *)
(***************************************************************************)
NotReturned == <<>>
MigrationFailed(e) == <<SummaryLine("Migration failed with error: ", e)>>

SourceOnlySections == Keys(source_sections) \ Keys(target_sections)
CommonSections == Keys(source_sections) \cap Keys(target_sections)

(* where run_migration goes once the names in done have been iterated over *)
AfterMigrating(src, tgt, done) ==
    IF Keys(src) \subseteq done THEN "validate" ELSE "migrate"

ghost == <<mode, original_target, first_target, first_changes>>

(* parse_gradle_files, and the except clause of run_migration when a file is
   not there: the source file is read and parsed before the target file *)
ParseGradleFiles ==
    /\ pc = "parse"
    /\ IF ~PathExists(SourcePath)
       THEN /\ summary' = MigrationFailed(ErrorReading(FileNotFound(SourcePath)))
            /\ pc' = "failed"
            /\ UNCHANGED <<source_sections, target_sections>>
       ELSE IF ~PathExists(TargetPath)
       THEN /\ source_sections' = IdentifySections(ReadGradleFile(source_file))
            /\ summary' = MigrationFailed(ErrorReading(FileNotFound(TargetPath)))
            /\ pc' = "failed"
            /\ UNCHANGED target_sections
       ELSE /\ source_sections' = IdentifySections(ReadGradleFile(source_file))
            /\ target_sections' = IdentifySections(ReadGradleFile(target_file))
            /\ pc' = AfterMigrating(source_sections', target_sections', {})
            /\ UNCHANGED summary
    /\ UNCHANGED <<existing, source_file, target_file, migration_changes,
                   validation_errors, validation_passed, migrated, ghost>>

(* one iteration of the first loop of migrate_sections; a set is iterated in
   an order the hashes of its strings decide, which differs from run to run *)
MigrateNewSection ==
    /\ pc = "migrate"
    /\ \E section_name \in SourceOnlySections \ migrated :
          LET source_section == Get(source_sections, section_name)
          IN /\ target_file' = WriteLines(NewSectionLines(ReadGradleFile(target_file),
                                                          source_section))
             /\ migration_changes' = Append(migration_changes,
                                            AddChange(section_name, source_section))
             /\ migrated' = migrated \cup {section_name}
             /\ pc' = AfterMigrating(source_sections, target_sections, migrated')
    /\ UNCHANGED <<existing, summary, source_file, source_sections, target_sections,
                   validation_errors, validation_passed, ghost>>

(* one iteration of the second loop of migrate_sections *)
MigrateExistingSection ==
    /\ pc = "migrate"
    /\ SourceOnlySections \subseteq migrated
    /\ \E section_name \in CommonSections \ migrated :
          LET source_section == Get(source_sections, section_name)
              target_section == Get(target_sections, section_name)
              new_content == NewContent(source_section, target_section)
          IN /\ IF new_content = <<>>
                THEN UNCHANGED <<target_file, migration_changes>>
                ELSE /\ target_file' = WriteLines(ExistingSectionLines(
                                           ReadGradleFile(target_file),
                                           target_section, new_content))
                     /\ migration_changes' = Append(migration_changes,
                                                UpdateChange(section_name, new_content))
             /\ migrated' = migrated \cup {section_name}
             /\ pc' = AfterMigrating(source_sections, target_sections, migrated')
    /\ UNCHANGED <<existing, summary, source_file, source_sections, target_sections,
                   validation_errors, validation_passed, ghost>>

(* str(e) of the OSError that open or writelines raises *)
OSErrorText == <<"OSError">>

(* what a write that fails leaves in the file: open(path, 'w') has emptied
   it, and writelines got none or some of the lines out, never all of them
   (a last line cut short is not among the lines of the vocabulary) *)
FailedWrites(target_lines) ==
    LET written == WriteLines(target_lines)
    IN {SubSeq(written, 1, k) : k \in 0..(Len(written) - 1)}

(* the file after a step in which reading the target file, opening it for
   writing or writing to it raised: as it was, or as a failed write left it *)
AfterFailure(file, target_lines) == {file} \cup FailedWrites(target_lines)

(* one iteration of the first loop of migrate_sections in which the file
   input or output raises, and the except clause of run_migration *)
MigrateNewSectionFails ==
    /\ pc = "migrate"
    /\ \E section_name \in SourceOnlySections \ migrated :
          LET source_section == Get(source_sections, section_name)
          IN /\ target_file' \in AfterFailure(target_file,
                                     NewSectionLines(ReadGradleFile(target_file),
                                                     source_section))
             /\ migrated' = migrated \cup {section_name}
    /\ summary' = MigrationFailed(OSErrorText)
    /\ pc' = "failed"
    /\ UNCHANGED <<existing, source_file, source_sections, target_sections,
                   migration_changes, validation_errors, validation_passed, ghost>>

(* one iteration of the second loop of migrate_sections in which the file
   input or output raises; a step with nothing new to add only reads *)
MigrateExistingSectionFails ==
    /\ pc = "migrate"
    /\ SourceOnlySections \subseteq migrated
    /\ \E section_name \in CommonSections \ migrated :
          LET source_section == Get(source_sections, section_name)
              target_section == Get(target_sections, section_name)
              new_content == NewContent(source_section, target_section)
          IN /\ IF new_content = <<>>
                THEN UNCHANGED target_file
                ELSE target_file' \in AfterFailure(target_file,
                                          ExistingSectionLines(
                                              ReadGradleFile(target_file),
                                              target_section, new_content))
             /\ migrated' = migrated \cup {section_name}
    /\ summary' = MigrationFailed(OSErrorText)
    /\ pc' = "failed"
    /\ UNCHANGED <<existing, source_file, source_sections, target_sections,
                   migration_changes, validation_errors, validation_passed, ghost>>

(* validate_gradle_structure that puts the file back when it finds an error *)
ValidateGradleStructureRollingBack ==
    /\ pc = "validate"
    /\ LET errors == ValidationErrors(ReadGradleFile(target_file))
       IN /\ validation_errors' = validation_errors \o errors
          /\ validation_passed' = (errors = <<>>)
          /\ target_file' = IF errors = <<>> THEN target_file ELSE original_target
    /\ pc' = "summarise"
    /\ UNCHANGED <<existing, summary, source_file, source_sections, target_sections,
                   migration_changes, migrated, ghost>>

ValidateGradleStructure ==
    /\ pc = "validate"
    /\ LET errors == ValidationErrors(ReadGradleFile(target_file))
       IN /\ validation_errors' = validation_errors \o errors
          /\ validation_passed' = (errors = <<>>)
    /\ pc' = "summarise"
    /\ UNCHANGED <<existing, summary, source_file, target_file, source_sections,
                   target_sections, migration_changes, migrated, ghost>>

(* step 4 of run_migration, and the return of the summary *)
GenerateSummary ==
    /\ pc = "summarise"
    /\ summary' = SummaryOf(migration_changes, validation_errors)
    /\ pc' = "done"
    /\ UNCHANGED <<existing, source_file, target_file, source_sections, target_sections,
                   migration_changes, validation_errors, validation_passed, migrated,
                   ghost>>

(* BuildGradleMigrator(source, target): the state of a new object *)
NewMigrator ==
    /\ source_sections' = <<>>
    /\ target_sections' = <<>>
    /\ migration_changes' = <<>>
    /\ validation_errors' = <<>>
    /\ validation_passed' = FALSE
    /\ migrated' = {}
    /\ summary' = NotReturned
    /\ pc' = "parse"

(* a second run over the files the first run left *)
RunAgain ==
    /\ pc = "done" /\ mode = "first"
    /\ NewMigrator
    /\ mode' = "again"
    /\ first_target' = target_file
    /\ first_changes' = migration_changes
    /\ UNCHANGED <<existing, source_file, target_file, original_target>>

(* a second run over the files the first run started from *)
RunSame ==
    /\ pc = "done" /\ mode = "first"
    /\ NewMigrator
    /\ mode' = "same"
    /\ target_file' = original_target
    /\ first_target' = target_file
    /\ first_changes' = migration_changes
    /\ UNCHANGED <<existing, source_file, original_target>>

(***************************************************************************)
(* The files the runs start from.                                          *)
(***************************************************************************)
RECURSIVE SeqsUpTo(_, _)
SeqsUpTo(S, n) ==
    IF n = 0 THEN {<<>>}
    ELSE LET shorter == SeqsUpTo(S, n - 1)
         IN shorter \cup {Append(s, x) : s \in shorter, x \in S}

ScanTexts == {OpenLine(n) : n \in SectionNames}
             \cup {OneLineBlock, ForeignOpen, CloseLine, BlankText, CommentText}
             \cup StatementTexts

ScanFiles == SeqsUpTo({Line(0, t) : t \in ScanTexts}, MaxScanLen)

InitWith(source, target) ==
    /\ summary = NotReturned
    /\ source_file = source
    /\ target_file = target
    /\ source_sections = <<>>
    /\ target_sections = <<>>
    /\ migration_changes = <<>>
    /\ validation_errors = <<>>
    /\ validation_passed = FALSE
    /\ migrated = {}
    /\ pc = "parse"
    /\ mode = "first"
    /\ original_target = target
    /\ first_target = <<>>
    /\ first_changes = <<>>

(* one file, parsed and validated: a run whose source file is empty *)
InitScan == \E target \in ScanFiles : InitWith(<<>>, target) /\ existing = Paths
NextScan == ParseGradleFiles \/ ValidateGradleStructure \/ GenerateSummary
SpecScan == InitScan /\ [][NextScan]_vars

(* a whole block: its opening line, its body, its closing line *)
Block(n, body) == <<Line(0, OpenLine(n))>> \o body \o <<Line(0, CloseLine)>>

(* a block whose opening line identify_sections does not take for a section *)
ForeignBlock(body) == <<Line(0, ForeignOpen)>> \o body \o <<Line(0, CloseLine)>>

(* what a file is made of, top to bottom: blocks and one-line blocks *)
SourceItems ==
    { Block("plugins", <<Line(4, "x")>>),
      Block("plugins", <<Line(4, "y"), Line(4, "x"), Line(4, "y")>>),
      Block("dependencies", <<Line(4, "y")>>),
      ForeignBlock(<<Line(4, OneLineBlock)>>),
      <<Line(0, OneLineBlock)>> }

TargetItems ==
    { Block("plugins", <<>>),
      Block("plugins", <<Line(4, "x")>>),
      Block("dependencies", <<Line(4, OneLineBlock)>>),
      ForeignBlock(<<>>),
      <<Line(0, OneLineBlock)>> }

RECURSIVE FilesOf(_, _)
FilesOf(items, n) ==
    IF n = 0 THEN {<<>>}
    ELSE LET shorter == FilesOf(items, n - 1)
         IN shorter \cup {f \o item : f \in shorter, item \in items}

(* the same file with no newline at the end of its last line *)
NoFinalNewline(f) == [f EXCEPT ![Len(f)].nl = FALSE]

(* source files end in a newline; target files do or do not *)
SourceFiles == FilesOf(SourceItems, MaxItems)
TargetFiles ==
    LET files == FilesOf(TargetItems, MaxItems)
    IN files \cup {NoFinalNewline(f) : f \in files \ {<<>>}}

Init ==
    \E source \in SourceFiles, target \in TargetFiles :
        InitWith(source, target) /\ existing = Paths
Next ==
    \/ ParseGradleFiles
    \/ MigrateNewSection
    \/ MigrateExistingSection
    \/ ValidateGradleStructure
    \/ GenerateSummary
    \/ RunAgain
    \/ RunSame
Spec == Init /\ [][Next]_vars

(* one run over files that are there or not, in which the file input and
   output of a merge step may raise; a file that is not there has no lines *)
InitRun ==
    \E source \in SourceFiles, target \in FilesOf(TargetItems, 1), on_disk \in SUBSET Paths :
        /\ InitWith(IF SourcePath \in on_disk THEN source ELSE <<>>,
                    IF TargetPath \in on_disk THEN target ELSE <<>>)
        /\ existing = on_disk
NextRun ==
    \/ ParseGradleFiles
    \/ MigrateNewSection
    \/ MigrateNewSectionFails
    \/ MigrateExistingSection
    \/ MigrateExistingSectionFails
    \/ ValidateGradleStructure
    \/ GenerateSummary
SpecRun == InitRun /\ [][NextRun]_vars

(***************************************************************************)
(* What the claims speak of, said without the operators of the model.      *)
(***************************************************************************)
(* the '{' minus the '}' of the first k lines of a file *)
NetBraces(lines, k) == SumSeq(FileBraces(SubSeq(lines, 1, k)))

(* the running count of '{' minus '}' over the characters of a file is never
   negative and is zero at the end *)
Balanced(lines) ==
    LET chars == FileBraces(lines)
    IN /\ \A k \in 1..Len(chars) : SumSeq(SubSeq(chars, 1, k)) >= 0
       /\ SumSeq(chars) = 0

RunsNegative(lines) ==
    LET chars == FileBraces(lines)
    IN \E k \in 1..Len(chars) : SumSeq(SubSeq(chars, 1, k)) < 0

(* the 0-based indices of the lines that open a named block at depth 0 *)
TopLevelBlocks(lines) ==
    {i \in 0..(Len(lines) - 1) :
        /\ SectionMatch(lines[i + 1].txt) # NoMatch
        /\ NetBraces(lines, i) = 0}

Parsed == pc \in {"migrate", "validate", "summarise", "done"}

(***************************************************************************)
(* C1: for a file whose braces are balanced, every section that             *)
(* identify_sections returns has as many '{' as '}' in its content, and no *)
(* line lies in the [start_line, end_line] range of two sections.          *)
(***************************************************************************)
SectionsBalancedAndDisjoint ==
    (Parsed /\ Balanced(target_file) /\ mode = "first" /\ target_file = original_target) =>
        /\ \A k \in 1..Len(target_sections) :
              SumSeq(FileBraces(target_sections[k].content)) = 0
        /\ \A k, m \in 1..Len(target_sections) :
              k # m => \/ target_sections[k].end_line < target_sections[m].start_line
                       \/ target_sections[m].end_line < target_sections[k].start_line

(***************************************************************************)
(* The merge.                                                              *)
(***************************************************************************)
Migrated == pc \in {"validate", "summarise", "done"}

(* the lines of block, contiguous and in order, somewhere in file *)
ContainsBlock(file, block) ==
    \E at \in 0..(Len(file) - Len(block)) :
        SubSeq(file, at + 1, at + Len(block)) = block

(* how often line l occurs in a sequence of lines *)
Occurrences(file, l) == Cardinality({k \in 1..Len(file) : file[k] = l})

ChangesOf(name, type) ==
    {k \in 1..Len(migration_changes) :
        /\ migration_changes[k].section_name = name
        /\ migration_changes[k].change_type = type}

(* the sections of a file as a fresh parse finds them *)
KeysOfFile(file) == Keys(IdentifySections(file))

(***************************************************************************)
(* C2: after migrate_sections, the target file holds the content of every  *)
(* section that only the source had, its lines contiguous and in order,    *)
(* and the log holds exactly one ADD change for it, whose first detail     *)
(* gives the number of lines of that content.                              *)
(***************************************************************************)
NewSectionsCopiedWhole ==
    Migrated =>
        \A name \in SourceOnlySections :
            LET content == Get(source_sections, name).content
            IN /\ ContainsBlock(target_file, content)
               /\ Cardinality(ChangesOf(name, "ADD")) = 1
               /\ \A k \in ChangesOf(name, "ADD") :
                     migration_changes[k].details[1] = CountDetail(Len(content))

(***************************************************************************)
(* C3: a step of _migrate_existing_section for a section whose source      *)
(* meaningful lines all occur among the target section's meaningful lines  *)
(* leaves the target file and the change log as they were.                 *)
(***************************************************************************)
MeaningfulLines(content) ==
    {Strip(content[k]) : k \in {j \in 1..Len(content) : Meaningful(content[j])}}

NothingNew(name) ==
    MeaningfulLines(Get(source_sections, name).content)
        \subseteq MeaningfulLines(Get(target_sections, name).content)

NothingNewNothingDone ==
    [][\A name \in CommonSections :
          (/\ pc = "migrate"
           /\ name \notin migrated
           /\ migrated' = migrated \cup {name}
           /\ NothingNew(name))
          => /\ target_file' = target_file
             /\ migration_changes' = migration_changes]_vars

(* a section with meaningful lines, all of them in the target, was stepped over *)
NothingNewStepped ==
    \E name \in CommonSections \cap migrated :
        /\ MeaningfulLines(Get(source_sections, name).content) # {}
        /\ NothingNew(name)
        /\ ChangesOf(name, "UPDATE") = {}
        /\ mode = "first"
        /\ target_file = original_target

(***************************************************************************)
(* C4: when the first merge had only common sections, a second merge of    *)
(* the same source into the merged target leaves the target file as it was *)
(* and records no change for a common section.                             *)
(***************************************************************************)
SecondMergeOfCommonSectionsIdle ==
    (/\ mode = "again"
     /\ Migrated
     /\ KeysOfFile(source_file) \subseteq KeysOfFile(original_target)) =>
        /\ target_file = first_target
        /\ \A name \in CommonSections :
              ChangesOf(name, "ADD") \cup ChangesOf(name, "UPDATE") = {}

(***************************************************************************)
(* C5 as claimed: a section the source has and the original target lacks   *)
(* is inserted again by a second merge into the merged target, which then  *)
(* holds its content twice, and a second ADD change is recorded.           *)
(***************************************************************************)
HoldsTwice(file, content) ==
    \A k \in 1..Len(content) :
        Occurrences(file, content[k]) >= 2 * Occurrences(content, content[k])

AddedAgain(name) ==
    /\ Cardinality(ChangesOf(name, "ADD")) = 1
    /\ HoldsTwice(target_file, Get(source_sections, name).content)

SecondMergeAddsAgain ==
    (mode = "again" /\ Migrated) =>
        \A name \in Keys(source_sections) \ KeysOfFile(original_target) :
            AddedAgain(name)

(***************************************************************************)
(* C5 as amended: a second merge inserts again exactly the sections that   *)
(* the first merge added and that a parse of the merged target does not    *)
(* find (they lie inside a block the scan captured).  For each of them the *)
(* target then holds every line of the content twice and the second run    *)
(* records an ADD change; for a section the parse does find, the second    *)
(* run records no ADD change.                                              *)
(***************************************************************************)
SecondMergeAddsHiddenSectionsAgain ==
    (mode = "again" /\ Migrated) =>
        \A name \in Keys(source_sections) \ KeysOfFile(original_target) :
            IF name \in KeysOfFile(first_target)
            THEN ChangesOf(name, "ADD") = {}
            ELSE AddedAgain(name)

(* a section the first merge put inside a block has been added twice *)
HiddenSectionAddedTwice ==
    /\ mode = "again"
    /\ Migrated
    /\ \E name \in Keys(source_sections) \ KeysOfFile(original_target) :
          /\ name \notin KeysOfFile(first_target)
          /\ ChangesOf(name, "ADD") # {}
          /\ ContainsBlock(first_target, Get(source_sections, name).content)
          /\ Len(target_file) > Len(first_target)

(***************************************************************************)
(* C6: two runs started from the same source and target files record the   *)
(* same sequence of changes and leave the same target file.                *)
(***************************************************************************)
SameFilesSameResult ==
    (mode = "same" /\ pc = "done") =>
        /\ migration_changes = first_changes
        /\ target_file = first_target


(***************************************************************************)
(* C7: a balanced target file with two top-level blocks of one name fails  *)
(* validation with a duplicate-section error that lists the name.          *)
(***************************************************************************)
DuplicateBlocksRejected ==
    \A i, j \in TopLevelBlocks(target_file) :
        (/\ pc = "done"
         /\ Balanced(target_file)
         /\ i # j
         /\ SectionMatch(target_file[i + 1].txt) = SectionMatch(target_file[j + 1].txt)) =>
            /\ ~validation_passed
            /\ \E k \in 1..Len(validation_errors) :
                  /\ validation_errors[k].error = "Duplicate sections found"
                  /\ SectionMatch(target_file[i + 1].txt) \in validation_errors[k].names

(***************************************************************************)
(* C8: a target file with balanced braces and pairwise distinct top-level  *)
(* section names passes validation and no validation error is recorded.    *)
(***************************************************************************)
DistinctTopLevelNames(lines) ==
    \A i, j \in TopLevelBlocks(lines) :
        i # j => SectionMatch(lines[i + 1].txt) # SectionMatch(lines[j + 1].txt)

BalancedDistinctPasses ==
    (pc = "done" /\ Balanced(target_file) /\ DistinctTopLevelNames(target_file)) =>
        validation_passed /\ validation_errors = <<>>

BalancedDistinctValidated ==
    /\ pc = "done"
    /\ Balanced(target_file)
    /\ DistinctTopLevelNames(target_file)
    /\ Cardinality(TopLevelBlocks(target_file)) = 2
    /\ validation_passed

(***************************************************************************)
(* C9: validation fails with "Unbalanced braces detected" as soon as the   *)
(* running count goes negative; failing that, with the imbalance when the  *)
(* count at the end is not zero; a duplicate error is recorded only for a  *)
(* file that passed the brace check; one call records at most one error.   *)
(***************************************************************************)
BraceErrorsInOrder ==
    pc = "done" =>
        /\ RunsNegative(target_file) =>
              ~validation_passed /\ validation_errors = <<UnbalancedDetected>>
        /\ (~RunsNegative(target_file) /\ SumSeq(FileBraces(target_file)) # 0) =>
              /\ ~validation_passed
              /\ validation_errors = <<UnclosedBraces(SumSeq(FileBraces(target_file)))>>
        /\ (\E k \in 1..Len(validation_errors) :
                validation_errors[k].error = "Duplicate sections found")
              => Balanced(target_file)
        /\ Len(validation_errors) <= 1

(* a file whose count goes negative and ends above zero *)
NegativeThenUnclosed ==
    /\ pc = "done"
    /\ RunsNegative(target_file)
    /\ SumSeq(FileBraces(target_file)) > 0
    /\ validation_errors = <<UnbalancedDetected>>

(***************************************************************************)
(* C10: when the scan of a captured section reaches the end of the file    *)
(* with its brace counter not zero, validation of that file fails.         *)
(***************************************************************************)
OpenAtEndOfFile(lines, section) ==
    LET end == FindSectionEnd(lines, section.start_line + 1, InitialBraceCount)
    IN end[1] = Len(lines) /\ end[2] # 0

UnclosedSectionRejected ==
    \A k \in 1..Len(target_sections) :
        (pc = "done" /\ mode = "first" /\ target_file = original_target
         /\ OpenAtEndOfFile(target_file, target_sections[k])) => ~validation_passed

(***************************************************************************)
(* C11: when the source file or the target file is not there as            *)
(* run_migration starts, the run ends with a failure result that says      *)
(* which file was not found, the target file is never written and no       *)
(* change is recorded.                                                     *)
(***************************************************************************)
FirstMissing == IF SourcePath \notin existing THEN SourcePath ELSE TargetPath

MissingFileFailsBeforeAnyWrite ==
    existing # Paths =>
        /\ pc \in {"parse", "failed"}
        /\ target_file = original_target
        /\ migration_changes = <<>>
        /\ pc = "failed" =>
              /\ Len(summary) = 1
              /\ summary[1].line = "Migration failed with error: "
              /\ \E k \in 1..(Len(summary[1].with) - 1) :
                    /\ summary[1].with[k] = "File not found: "
                    /\ summary[1].with[k + 1] = FirstMissing

(* the source file was read and parsed, the target file was not there *)
TargetMissingAfterSourceParsed ==
    /\ pc = "failed"
    /\ existing = {SourcePath}
    /\ source_sections # <<>>
    /\ summary # NotReturned

(***************************************************************************)
(* The blocks of a file, by its braces.                                    *)
(***************************************************************************)
(* the 0-based index of the line on which the block opened on line i closes,
   or of the last line of the file when it does not close *)
BlockEnd(lines, i) ==
    LET closing == {j \in i..(Len(lines) - 1) :
                        NetBraces(lines, j + 1) <= NetBraces(lines, i)}
    IN IF closing = {} THEN Len(lines) - 1
       ELSE CHOOSE j \in closing : \A m \in closing : j <= m

(* the lines at depth 0 that open a block of this name *)
TopLevelBlocksOf(lines, name) ==
    {i \in TopLevelBlocks(lines) : SectionMatch(lines[i + 1].txt) = name}

(* the meaningful lines of the first content that the second lacks, trimmed,
   in the order of the first *)
NewLinesInOrder(source_content, target_content) ==
    LET new == SelectSeq(source_content,
                         LAMBDA l : Meaningful(l)
                                    /\ Strip(l) \notin MeaningfulLines(target_content))
    IN [k \in 1..Len(new) |-> Strip(new[k])]

NewLinesOf(name) ==
    NewLinesInOrder(Get(source_sections, name).content,
                    Get(target_sections, name).content)

IsLineComment(l) == l.txt = LineComment /\ l.tail = NoTail

(* line l stands in a top-level block of this name, a per-line marker comment
   on the line before it *)
MarkedInBlock(lines, name, l) ==
    \E i \in TopLevelBlocksOf(lines, name) :
        \E k \in (i + 1)..BlockEnd(lines, i) :
            /\ k >= 1
            /\ Strip(lines[k + 1]) = l
            /\ IsLineComment(lines[k])

(***************************************************************************)
(* C12: for a section name of both files whose source section has          *)
(* meaningful lines that the target section lacks, after the merge the     *)
(* target's block of that name holds each such line with a per-line marker *)
(* comment directly before it, and exactly one UPDATE change is recorded   *)
(* for the name, its details being exactly those lines.                    *)
(***************************************************************************)
UpdatedBlockHoldsNewLines ==
    (Migrated /\ mode = "first") =>
        \A name \in CommonSections :
            NewLinesOf(name) # <<>> =>
                /\ \A k \in 1..Len(NewLinesOf(name)) :
                      MarkedInBlock(target_file, name, NewLinesOf(name)[k])
                /\ Cardinality(ChangesOf(name, "UPDATE")) = 1
                /\ \A c \in ChangesOf(name, "UPDATE") :
                      migration_changes[c].details = NewLinesOf(name)

(***************************************************************************)
(* C13: the summary lists the ADD changes and then the UPDATE changes,     *)
(* each group in the order of the log and an ADD change without its first  *)
(* detail, and for every log, the empty one too, it ends with the          *)
(* validation block: PASSED when no validation error is recorded, FAILED   *)
(* and the errors otherwise.                                               *)
(***************************************************************************)
(* the changes of one type, in the order of the log *)
LoggedChanges(type) == SelectSeq(migration_changes, LAMBDA c : c.change_type = type)

(* what the summary says of one change: name, description, numbered details *)
Rendered(change) ==
    LET listed == IF change.change_type = "ADD" THEN Tail(change.details)
                  ELSE change.details
        text == IF change.change_type = "ADD" THEN "  Change-i: " ELSE "Change-i: "
    IN <<SummaryLine("Section: ", <<change.section_name>>),
         SummaryLine("Description: ", change.description)>>
           \o [i \in 1..Len(listed) |-> SummaryLine(text, <<i, listed[i]>>)]
           \o <<SummaryLine("", <<>>)>>

RECURSIVE RenderedGroup(_)
RenderedGroup(changes) ==
    IF changes = <<>> THEN <<>>
    ELSE Rendered(Head(changes)) \o RenderedGroup(Tail(changes))

ValidationBlock ==
    <<SummaryLine("=== Validation Results ===", <<>>)>>
        \o (IF validation_errors = <<>>
            THEN <<SummaryLine("Validation PASSED: All checks completed successfully.",
                               <<>>)>>
            ELSE <<SummaryLine("Validation FAILED:", <<>>)>>
                     \o [k \in 1..Len(validation_errors) |->
                            SummaryLine("  - ", <<validation_errors[k]>>)])

(* the lines of the summary from line k on *)
SummaryFrom(k) == SubSeq(summary, k, Len(summary))

SummaryListsChangesThenValidation ==
    pc = "done" =>
        \E a, u, v \in 1..(Len(summary) + 1) :
            /\ a <= u /\ u <= v
            /\ SubSeq(summary, a, u - 1) = RenderedGroup(LoggedChanges("ADD"))
            /\ SubSeq(summary, u, v - 1) \in
                  {RenderedGroup(LoggedChanges("UPDATE")),
                   <<SummaryLine("=== Updated Sections ===", <<>>)>>
                       \o RenderedGroup(LoggedChanges("UPDATE"))}
            /\ SummaryFrom(v) = ValidationBlock

(***************************************************************************)
(* C14: validate_gradle_structure changes neither the target file nor the  *)
(* change log, whatever it finds: the file stays what the merge wrote, and *)
(* the run goes on to render the summary, which leaves the file alone too. *)
(***************************************************************************)
ValidationLeavesTheMerge ==
    [][/\ pc = "validate" =>
             /\ target_file' = target_file
             /\ migration_changes' = migration_changes
             /\ pc' = "summarise"
       /\ pc = "summarise" =>
             /\ target_file' = target_file
             /\ migration_changes' = migration_changes
             /\ summary' # NotReturned
             /\ summary'[1].line # "Migration failed with error: "
             /\ pc' = "done"]_vars

(* a merge that wrote the file, failed validation and was summarised *)
FailedValidationSummarised ==
    /\ pc = "done"
    /\ mode = "first"
    /\ ~validation_passed
    /\ migration_changes # <<>>
    /\ target_file # original_target
    /\ summary # NotReturned

(***************************************************************************)
(* C15: every step of _migrate_existing_section that writes places the     *)
(* section marker comment directly before the line that opens the section  *)
(* in the target file as it is at that step, and the new lines, each after *)
(* its per-line marker, directly after that opening line.                  *)
(***************************************************************************)
(* each line after a per-line marker comment, indented as the code indents *)
MarkedLines(new) ==
    [k \in 1..(2 * Len(new)) |->
        IF k % 2 = 1 THEN Line(4, LineComment)
        ELSE [ind |-> 4, txt |-> new[k \div 2].txt, nl |-> TRUE,
              tail |-> new[k \div 2].tail]]

(* where a parse of the file as it is now finds the section to start *)
CurrentStart(name) == Get(IdentifySections(target_file), name).start_line

(* the step of _migrate_existing_section for this name, writing the file *)
UpdateWrites(name) ==
    /\ pc = "migrate"
    /\ name \in CommonSections \ migrated
    /\ migrated' = migrated \cup {name}
    /\ target_file' # target_file

UpdateLocatesSectionInCurrentFile ==
    [][\A name \in SectionNames :
          (UpdateWrites(name) /\ name \in KeysOfFile(target_file)) =>
              target_file' =
                  WriteLines(InsertAt(InsertAt(target_file, CurrentStart(name),
                                               <<Line(0, UpdatedComment)>>),
                                      CurrentStart(name) + 2,
                                      MarkedLines(NewLinesOf(name))))]_vars

(***************************************************************************)
(* C16: a step of _migrate_new_section puts into the target file, at the   *)
(* index of its last line that trimmed is a closing brace alone, or at the *)
(* end when it has no such line, one marker comment line, the lines of the *)
(* source section's content in order and one blank line; the lines that    *)
(* were at or after that index follow unchanged, and so do the lines       *)
(* before it.                                                              *)
(***************************************************************************)
LastClosingLine(lines) ==
    LET closing == {i \in 0..(Len(lines) - 1) :
                        lines[i + 1].txt = CloseLine /\ lines[i + 1].tail = NoTail}
    IN IF closing = {} THEN Len(lines)
       ELSE CHOOSE i \in closing : \A j \in closing : j <= i

AddWrites(name) ==
    /\ pc = "migrate"
    /\ name \in SourceOnlySections \ migrated
    /\ migrated' = migrated \cup {name}

NewSectionInsertedAtLastClosingLine ==
    [][\A name \in SectionNames :
          AddWrites(name) =>
              LET at == LastClosingLine(target_file)
                  content == Get(source_sections, name).content
              IN /\ Len(target_file') = Len(target_file) + Len(content) + 2
                 /\ SubSeq(target_file', 1, at) = SubSeq(target_file, 1, at)
                 /\ target_file'[at + 1] = Line(0, AddedComment)
                 /\ SubSeq(target_file', at + 2, at + 1 + Len(content)) = content
                 /\ target_file'[at + 2 + Len(content)] = Line(0, BlankText)
                 /\ SubSeq(target_file', at + 3 + Len(content), Len(target_file'))
                       = SubSeq(target_file, at + 1, Len(target_file))]_vars

(***************************************************************************)
(* C17: the filter behind the details of an ADD change and the comparison  *)
(* of an update keeps a trimmed section line exactly when it is not blank, *)
(* is not a comment line and is not a brace alone; a line with other text  *)
(* besides a leading or trailing brace is kept.                            *)
(***************************************************************************)
BraceAlone(l) == l.tail = NoTail /\ l.txt \in {"{", "}"}

KeptAsClaimed(l) == ~StripIsEmpty(l) /\ ~LineStartsWithComment(l) /\ ~BraceAlone(l)

ClaimedLines(content) ==
    LET kept == SelectSeq(content, KeptAsClaimed)
    IN [k \in 1..Len(kept) |-> Strip(kept[k])]

ClaimedNewLines(name) ==
    LET target_lines == ClaimedLines(Get(target_sections, name).content)
    IN SelectSeq(ClaimedLines(Get(source_sections, name).content),
                 LAMBDA l : \A k \in 1..Len(target_lines) : target_lines[k] # l)

FilterKeepsAllButBlankCommentBrace ==
    Migrated =>
        /\ \A k \in 1..Len(migration_changes) :
              LET change == migration_changes[k] IN
              IF change.change_type = "ADD"
              THEN Tail(change.details)
                       = ClaimedLines(Get(source_sections, change.section_name).content)
              ELSE change.details = ClaimedNewLines(change.section_name)
        /\ \A name \in CommonSections :
              ClaimedNewLines(name) # <<>> => ChangesOf(name, "UPDATE") # {}

(***************************************************************************)
(* C18: for a common section the new content is the meaningful lines of    *)
(* the source section, in source order and once for each occurrence, that  *)
(* equal no meaningful line of the target section; the UPDATE change's     *)
(* details are this list, and the file receives one section marker line    *)
(* and, for each line of the list, a per-line marker comment line and then *)
(* the line.                                                               *)
(***************************************************************************)
UpdateSteps(name) ==
    /\ pc = "migrate"
    /\ name \in CommonSections \ migrated
    /\ migrated' = migrated \cup {name}

UpdateAddsExactlyTheNewLines ==
    [][\A name \in SectionNames :
          (UpdateSteps(name) /\ NewLinesOf(name) # <<>>) =>
              /\ migration_changes' =
                     Append(migration_changes,
                            [section_name |-> name,
                             change_type |-> "UPDATE",
                             description |-> <<"Updated section with new content from source",
                                               name>>,
                             details |-> NewLinesOf(name)])
              /\ \E p \in 0..Len(target_file), q \in 0..(Len(target_file) + 1) :
                     target_file' =
                         InsertAt(InsertAt(target_file, p, <<Line(0, UpdatedComment)>>),
                                  q, MarkedLines(NewLinesOf(name)))]_vars

(***************************************************************************)
(* C19: in a file whose braces are balanced, every section that            *)
(* identify_sections returns starts on a line with as many '{' as '}' on   *)
(* the lines before it: only blocks that open at depth 0 become sections.  *)
(***************************************************************************)
OnlyTopLevelBlocksCaptured ==
    (Parsed /\ mode = "first" /\ target_file = original_target /\ Balanced(target_file)) =>
        \A k \in 1..Len(target_sections) :
            /\ NetBraces(target_file, target_sections[k].start_line) = 0
            /\ target_sections[k].start_line
                  \in TopLevelBlocksOf(target_file, target_sections[k].name)

(***************************************************************************)
(* C20: when one name opens two top-level blocks of a file, the mapping    *)
(* of identify_sections has one entry for the name, with the content, the  *)
(* start_line and the end_line of the later block, and the mapping lists   *)
(* its names in the order in which the file first shows them (for a file   *)
(* in which no closing brace comes before its opening brace).              *)
(***************************************************************************)
Largest(S) == CHOOSE i \in S : \A j \in S : j <= i
Smallest(S) == CHOOSE i \in S : \A j \in S : i <= j

OpensTwice(lines, name) == Cardinality(TopLevelBlocksOf(lines, name)) >= 2

EntriesOf(name) == {k \in 1..Len(target_sections) : target_sections[k].name = name}

LaterBlockWinsInFirstSeenOrder ==
    (/\ Parsed /\ mode = "first" /\ target_file = original_target
     /\ ~RunsNegative(target_file)) =>
        \A name \in SectionNames :
            OpensTwice(target_file, name) =>
                LET later == Largest(TopLevelBlocksOf(target_file, name))
                    end == BlockEnd(target_file, later)
                IN /\ Cardinality(EntriesOf(name)) = 1
                   /\ \A k \in EntriesOf(name) :
                         /\ target_sections[k].start_line = later
                         /\ target_sections[k].end_line = end
                         /\ target_sections[k].content
                               = SubSeq(target_file, later + 1, end + 1)
                   /\ \A k, m \in 1..Len(target_sections) :
                         (/\ k < m
                          /\ TopLevelBlocksOf(target_file, target_sections[k].name) # {}
                          /\ TopLevelBlocksOf(target_file, target_sections[m].name) # {})
                         => Smallest(TopLevelBlocksOf(target_file, target_sections[k].name))
                              < Smallest(TopLevelBlocksOf(target_file, target_sections[m].name))

(***************************************************************************)
(* C22: merge steps only insert lines: every line the target file had      *)
(* before a step is in it after the step, as it was and in the same order, *)
(* and no step writes the source file.                                     *)
(***************************************************************************)
(* the lines of a occur in b, in the order of a *)
RECURSIVE IsSubsequence(_, _)
IsSubsequence(a, b) ==
    IF a = <<>> THEN TRUE
    ELSE IF b = <<>> THEN FALSE
    ELSE IF Head(a) = Head(b) THEN IsSubsequence(Tail(a), Tail(b))
    ELSE IsSubsequence(a, Tail(b))

MergeOnlyInsertsLines ==
    [][/\ source_file' = source_file
       /\ pc = "migrate" => IsSubsequence(target_file, target_file')]_vars

(***************************************************************************)
(* C23: when the source file and the original target file each have        *)
(* balanced braces and pairwise distinct top-level section names, the      *)
(* target file has balanced braces after migrate_sections and              *)
(* validate_gradle_structure returns True.                                 *)
(***************************************************************************)
WellFormed(lines) == Balanced(lines) /\ DistinctTopLevelNames(lines)

MergeKeepsFileValid ==
    (mode = "first" /\ WellFormed(source_file) /\ WellFormed(original_target)) =>
        /\ Migrated => Balanced(target_file)
        /\ pc = "done" => validation_passed

(***************************************************************************)
(* C24: after migrate_sections, identify_sections on the target file       *)
(* returns every section name of the source mapping.                       *)
(***************************************************************************)
SourceSectionsAreTopLevelInTarget ==
    (Migrated /\ mode = "first") =>
        Keys(source_sections) \subseteq KeysOfFile(target_file)

(***************************************************************************)
(* C21: when a merge step raises after an earlier step has written the     *)
(* target file, no merge step runs after it, run_migration returns one     *)
(* failure message, and the target file is as the last step that wrote it  *)
(* left it: the failing step changes nothing in it.                        *)
(***************************************************************************)
FailedStepLeavesLastWrite ==
    [][/\ (pc = "migrate" /\ pc' = "failed" /\ migration_changes # <<>>) =>
             /\ target_file' = target_file
             /\ migration_changes' = migration_changes
             /\ Len(summary') = 1
             /\ summary'[1].line = "Migration failed with error: "
       /\ pc = "failed" => pc' = "failed" /\ target_file' = target_file]_vars

====
